---- MODULE Spec2Model ----
(***************************************************************************)
(* A model of update_version.py: extraction of a version string from the   *)
(* text of setup.py / __init__.py, ordering of version strings,            *)
(* increment of the letter suffix, the version update, the literal         *)
(* replacement in the two files, and main, which chains them.              *)
(*                                                                         *)
(* A Python str is a sequence of code points (naturals): ord and chr are   *)
(* the identity on them.  The texts of the model are ASCII.                *)
(* A raised exception is a result record with ok = FALSE and the message.  *)
(***************************************************************************)
EXTENDS Integers, Sequences, FiniteSets

\* ------------------------------------------------------------ code points
Dot    == 46
SQuote == 39
DQuote == 34
Space  == 32
Equals == 61
Ord0   == 48
OrdA   == 97
OrdZ   == 122
Base   == 26
Plus   == 43
Minus  == 45
Underscore == 95
Backslash  == 92

Digits       == 48..57
LowerLetters == 97..122
UpperLetters == 65..90
Letters      == LowerLetters \cup UpperLetters
Quotes       == {SQuote, DQuote}
\* the ASCII characters \s matches
Whitespace   == {9, 10, 11, 12, 13, 28, 29, 30, 31, Space}
\* the ASCII characters int() skips around a literal
IntBlanks    == {9, 10, 11, 12, 13, Space}

\* str.lower() on one ASCII code point: what re.IGNORECASE compares by
LowerOf(c) == IF c \in UpperLetters THEN c + 32 ELSE c

\* ------------------------------------------------------------ results
Ok(v)      == [ok |-> TRUE,  value |-> v,    msg |-> ""]
Raise(m)   == [ok |-> FALSE, value |-> <<>>, msg |-> m]

ErrNoSetup     == "Version not found in setup.py"
ErrNoInit      == "Version not found in __init__.py"
ErrNoVersions  == "No versions found"
ErrFormat      == "current_version must be in the format xx.xx.xx.yy"
ErrNoDirective == "At least one of major, minor, patch, or commit must be True"

\* ------------------------------------------------------------ str helpers
\* s[i:j] with 1-based inclusive bounds; empty when j < i
Slice(s, i, j) == IF j < i THEN <<>> ELSE SubSeq(s, i, j)

\* s.startswith(t, i-1): t occurs in s at (1-based) position i
OccursAt(s, t, i) ==
    /\ i >= 1
    /\ i + Len(t) - 1 <= Len(s)
    /\ \A k \in 1..Len(t) : s[i + k - 1] = t[k]

\* the position of the first dot from i on; Len(s) + 1 when there is none
NextDot(s, i) ==
    IF \E k \in i..Len(s) : s[k] = Dot
    THEN CHOOSE k \in i..Len(s) : s[k] = Dot /\ \A j \in i..(k - 1) : s[j] # Dot
    ELSE Len(s) + 1

\* str.split("."): the pieces between the dots, empty pieces included
RECURSIVE SplitFrom(_, _)
SplitFrom(s, i) ==
    LET d == NextDot(s, i)
    IN  IF d > Len(s) THEN <<Slice(s, i, Len(s))>>
        ELSE <<Slice(s, i, d - 1)>> \o SplitFrom(s, d + 1)

Split(s) == SplitFrom(s, 1)

\* the digits int() and str() convert at most: sys.get_int_max_str_digits()
MaxStrDigits == 4300
\* the characters of repr(literal) int() puts in its message: format %.200R
MaxReprLen   == 200

\* the first position from i on whose character is not in class; Len(s) + 1
\* when there is none
FirstNotIn(s, i, class) ==
    IF \E k \in i..Len(s) : s[k] \notin class
    THEN CHOOSE k \in i..Len(s) :
             /\ s[k] \notin class
             /\ \A j \in i..(k - 1) : s[j] \in class
    ELSE Len(s) + 1

\* int(s) of an ASCII str reads: blanks, an optional sign, then the run of
\* digits and underscores, then blanks to the end
IntSignAt(s)   == FirstNotIn(s, 1, IntBlanks)
Signed(s)      == IntSignAt(s) <= Len(s) /\ s[IntSignAt(s)] \in {Plus, Minus}
IntRunStart(s) == IF Signed(s) THEN IntSignAt(s) + 1 ELSE IntSignAt(s)
IntRunEnd(s)   == FirstNotIn(s, IntRunStart(s), Digits \cup {Underscore}) - 1

\* the run neither starts nor ends with an underscore, nor holds two in a row
IntRunWellFormed(s) ==
    LET a == IntRunStart(s)
        e == IntRunEnd(s)
    IN  e >= a => /\ s[a] # Underscore
                  /\ s[e] # Underscore
                  /\ \A k \in a..(e - 1) :
                         ~(s[k] = Underscore /\ s[k + 1] = Underscore)

\* the digits of the run, its underscores not counted
IntDigitCount(s) ==
    Cardinality({k \in IntRunStart(s)..IntRunEnd(s) : s[k] \in Digits})

\* the run is not empty and only blanks follow it
IntRunIsAll(s) ==
    /\ IntRunEnd(s) >= IntRunStart(s)
    /\ \A k \in (IntRunEnd(s) + 1)..Len(s) : s[k] \in IntBlanks

\* int(s) returns: the literal is well formed and within the digit limit
IsIntLiteral(s) ==
    /\ IntRunWellFormed(s)
    /\ IntDigitCount(s) <= MaxStrDigits
    /\ IntRunIsAll(s)

\* the value of the digits of b, its underscores skipped
RECURSIVE DigitsValue(_)
DigitsValue(b) ==
    IF Len(b) = 0 THEN 0
    ELSE IF b[Len(b)] = Underscore THEN DigitsValue(SubSeq(b, 1, Len(b) - 1))
    ELSE DigitsValue(SubSeq(b, 1, Len(b) - 1)) * 10 + (b[Len(b)] - Ord0)

\* the value of the run from its first digit that is not a leading zero
ParseInt(s) ==
    LET run == SubSeq(s, IntRunStart(s), IntRunEnd(s))
        v   == DigitsValue(Slice(run, FirstNotIn(run, 1, {Ord0, Underscore}), Len(run)))
    IN  IF Signed(s) /\ s[IntSignAt(s)] = Minus THEN 0 - v ELSE v

\* f"{n}" of an int: its decimal digits, no leading zero, '-' before a negative
RECURSIVE StrNat(_)
StrNat(n) ==
    IF n < 10 THEN <<Ord0 + n>>
    ELSE Append(StrNat(n \div 10), Ord0 + (n % 10))

Str(n) == IF n < 0 THEN <<Minus>> \o StrNat(0 - n) ELSE StrNat(n)

\* str(n) raises: n has more digits than the limit, its sign not counted
StrExceedsLimit(n) == Len(StrNat(IF n < 0 THEN 0 - n ELSE n)) > MaxStrDigits

\* the position of the first occurrence of old in s from i on; 0 when none
NextOccurrence(s, old, i) ==
    IF \E k \in i..Len(s) : OccursAt(s, old, k)
    THEN CHOOSE k \in i..Len(s) :
             /\ OccursAt(s, old, k)
             /\ \A j \in i..(k - 1) : ~OccursAt(s, old, j)
    ELSE 0

\* str.replace(old, new) for a non-empty old: every non-overlapping
\* occurrence, left to right
RECURSIVE ReplaceFrom(_, _, _, _)
ReplaceFrom(s, old, new, i) ==
    LET k == NextOccurrence(s, old, i)
    IN  IF k = 0 THEN Slice(s, i, Len(s))
        ELSE Slice(s, i, k - 1) \o new \o ReplaceFrom(s, old, new, k + Len(old))

Replace(s, old, new) == ReplaceFrom(s, old, new, 1)

\* ------------------------------------------------------------ exception texts
\* the printable ASCII characters chr(32) .. chr(95) and chr(97) .. chr(126);
\* chr(96), the backquote, cannot be written in a string of this language
PrintableLow ==
    <<
      " ", "!", "\"", "#", "$", "%", "&", "'", "(", ")", "*", "+",
      ",", "-", ".", "/", "0", "1", "2", "3", "4", "5", "6", "7",
      "8", "9", ":", ";", "<", "=", ">", "?", "@", "A", "B", "C",
      "D", "E", "F", "G", "H", "I", "J", "K", "L", "M", "N", "O",
      "P", "Q", "R", "S", "T", "U", "V", "W", "X", "Y", "Z", "[",
      "\\", "]", "^", "_"
    >>

PrintableHigh ==
    <<
      "a", "b", "c", "d", "e", "f", "g", "h", "i", "j", "k", "l",
      "m", "n", "o", "p", "q", "r", "s", "t", "u", "v", "w", "x",
      "y", "z", "{", "|", "}", "~"
    >>

\* chr(c) as a text of the message, for a printable ASCII code point but 96
Chr(c) == IF c < 96 THEN PrintableLow[c - 31] ELSE PrintableHigh[c - 96]

\* the code points of "0123456789abcdef"
HexDigits == <<48, 49, 50, 51, 52, 53, 54, 55, 56, 57, 97, 98, 99, 100, 101, 102>>

\* one character in repr(): a backslash doubled, the quote character q
\* escaped, \t \n \r named, any other control character as \xhh
EscapedChar(c, q) ==
    IF c = Backslash \/ c = q THEN <<Backslash, c>>
    ELSE IF c = 9 THEN <<Backslash, 116>>
    ELSE IF c = 10 THEN <<Backslash, 110>>
    ELSE IF c = 13 THEN <<Backslash, 114>>
    ELSE IF c < Space \/ c = 127
         THEN <<Backslash, 120, HexDigits[(c \div 16) + 1], HexDigits[(c % 16) + 1]>>
    ELSE <<c>>

\* the characters of s escaped, one after the other (computed by halves)
RECURSIVE Escaped(_, _)
Escaped(s, q) ==
    IF Len(s) = 0 THEN <<>>
    ELSE IF Len(s) = 1 THEN EscapedChar(s[1], q)
    ELSE Escaped(SubSeq(s, 1, Len(s) \div 2), q)
         \o Escaped(SubSeq(s, (Len(s) \div 2) + 1, Len(s)), q)

\* the quote repr(s) puts around s: the single quote, or the double quote when
\* s holds a single quote and no double quote
ReprQuote(s) ==
    IF (\E k \in 1..Len(s) : s[k] = SQuote) /\ ~(\E k \in 1..Len(s) : s[k] = DQuote)
    THEN DQuote
    ELSE SQuote

\* the first n characters of repr(s) of an ASCII str.  Every character of s
\* gives at least one of repr(s), so they lie within the opening quote and
\* the first n characters of s, escaped.
ReprHead(s, n) ==
    LET head == IF Len(s) > n THEN SubSeq(s, 1, n) ELSE s
        whole == <<ReprQuote(s)>> \o Escaped(head, ReprQuote(s)) \o <<ReprQuote(s)>>
    IN  IF Len(whole) > n THEN SubSeq(whole, 1, n) ELSE whole

\* the characters of a message, from their code points (computed by halves)
RECURSIVE Text(_)
Text(codes) ==
    IF Len(codes) = 0 THEN ""
    ELSE IF Len(codes) = 1 THEN Chr(codes[1])
    ELSE Text(SubSeq(codes, 1, Len(codes) \div 2))
         \o Text(SubSeq(codes, (Len(codes) \div 2) + 1, Len(codes)))

\* str(n) of a non-negative int, as a text of the message
RECURSIVE Decimal(_)
Decimal(n) ==
    IF n < 10 THEN Chr(Ord0 + n) ELSE Decimal(n \div 10) \o Chr(Ord0 + (n % 10))

\* the message of int(literal) on a str that is no int literal
ErrIntLiteral(literal) ==
    "invalid literal for int() with base 10: " \o Text(ReprHead(literal, MaxReprLen))

\* the message of int() on a literal of more digits than the limit
ErrIntDigits(digits) ==
    "Exceeds the limit (" \o Decimal(MaxStrDigits)
    \o " digits) for integer string conversion: value has " \o Decimal(digits)
    \o " digits; use sys.set_int_max_str_digits() to increase the limit"

\* the message of str() on an int of more digits than the limit
ErrStrDigits ==
    "Exceeds the limit (" \o Decimal(MaxStrDigits)
    \o " digits) for integer string conversion"
    \o "; use sys.set_int_max_str_digits() to increase the limit"

\* the message of the ValueError of int(s) when it raises: the run is checked
\* first, then the number of its digits, then what surrounds it
IntError(s) ==
    IF ~IntRunWellFormed(s) THEN ErrIntLiteral(s)
    ELSE IF IntDigitCount(s) > MaxStrDigits THEN ErrIntDigits(IntDigitCount(s))
    ELSE ErrIntLiteral(s)

\* the message of unpacking got < 3 values into major, minor, patch
ErrUnpack(got) ==
    "not enough values to unpack (expected 3, got " \o Decimal(got) \o ")"

\* map(int, parts[:3]) consumed in order: the first part that is no int literal
FirstBadLiteral(parts, n) ==
    parts[CHOOSE k \in 1..n : /\ ~IsIntLiteral(parts[k])
                              /\ \A h \in 1..(k - 1) : IsIntLiteral(parts[h])]

\* ------------------------------------------------------------ suffix order
\* suffix_key with the letters counted from 0: 'a' -> 0, so "aa" ties with "a"
RECURSIVE suffix_key_zero_based(_)
suffix_key_zero_based(suffix) ==
    IF Len(suffix) = 0 THEN 0
    ELSE suffix_key_zero_based(SubSeq(suffix, 1, Len(suffix) - 1)) * Base
         + (suffix[Len(suffix)] - OrdA)

\* suffix_key: the loop value = value * 26 + (ord(char) - ord('a') + 1)
RECURSIVE suffix_key(_)
suffix_key(suffix) ==
    IF Len(suffix) = 0 THEN 0
    ELSE suffix_key(SubSeq(suffix, 1, Len(suffix) - 1)) * Base
         + (suffix[Len(suffix)] - OrdA + 1)

\* comparison of two 4-tuples of ints, as Python compares tuples
TupleLess(a, b) ==
    \E k \in 1..4 : a[k] < b[k] /\ \A j \in 1..(k - 1) : a[j] = b[j]

\* version_key: the key tuple, or the ValueError of the unpacking / of int()
version_key(version) ==
    LET parts == Split(version)
        n     == IF Len(parts) < 3 THEN Len(parts) ELSE 3
    IN  IF \E k \in 1..n : ~IsIntLiteral(parts[k])
        THEN Raise(IntError(FirstBadLiteral(parts, n)))
        ELSE IF Len(parts) < 3 THEN Raise(ErrUnpack(Len(parts)))
        ELSE LET suffix == IF Len(parts) = 3 THEN <<OrdA>> ELSE parts[4]
             IN  Ok(<<ParseInt(parts[1]), ParseInt(parts[2]), ParseInt(parts[3]),
                      suffix_key(suffix)>>)

\* max(versions, key=version_key): the first element whose key no other exceeds
RECURSIVE MaxByKey(_, _, _)
MaxByKey(versions, i, best) ==
    IF i > Len(versions) THEN versions[best]
    ELSE IF TupleLess(version_key(versions[best]).value, version_key(versions[i]).value)
         THEN MaxByKey(versions, i + 1, i)
         ELSE MaxByKey(versions, i + 1, best)

\* comparison of two strs, as Python compares them (code point by code point)
RECURSIVE StrLess(_, _)
StrLess(a, b) ==
    IF Len(b) = 0 THEN FALSE
    ELSE IF Len(a) = 0 THEN TRUE
    ELSE IF a[1] # b[1] THEN a[1] < b[1]
    ELSE StrLess(Tail(a), Tail(b))

RECURSIVE MaxByText(_, _, _)
MaxByText(versions, i, best) ==
    IF i > Len(versions) THEN versions[best]
    ELSE IF StrLess(versions[best], versions[i])
         THEN MaxByText(versions, i + 1, i)
         ELSE MaxByText(versions, i + 1, best)

\* get_latest_version with the key dropped: max(versions)
get_latest_version_nokey(versions) ==
    IF Len(versions) = 0 THEN Raise(ErrNoVersions)
    ELSE Ok(MaxByText(versions, 2, 1))

get_latest_version(versions) ==
    IF Len(versions) = 0 THEN Raise(ErrNoVersions)
    ELSE IF \E k \in 1..Len(versions) : ~version_key(versions[k]).ok
         THEN LET k == CHOOSE j \in 1..Len(versions) :
                          /\ ~version_key(versions[j]).ok
                          /\ \A h \in 1..(j - 1) : version_key(versions[h]).ok
              IN  Raise(version_key(versions[k]).msg)
    ELSE Ok(MaxByKey(versions, 2, 1))

\* ------------------------------------------------------------ suffix increment
\* the value of i when the while loop of increment_suffix ends: the last
\* position whose character is not 'z' (the break), or 0 (the loop ran out)
LastNotZ(suffix_list) ==
    IF \E k \in 1..Len(suffix_list) : suffix_list[k] # OrdZ
    THEN CHOOSE k \in 1..Len(suffix_list) :
             /\ suffix_list[k] # OrdZ
             /\ \A j \in (k + 1)..Len(suffix_list) : suffix_list[j] = OrdZ
    ELSE 0

\* what the loop leaves in suffix_list: every 'z' it passed set to 'a', the
\* character it stopped at moved on by one
LoopResult(suffix_list, i) ==
    [k \in 1..Len(suffix_list) |->
        IF k > i THEN OrdA
        ELSE IF k = i THEN suffix_list[k] + 1
        ELSE suffix_list[k]]

\* the while loop of increment_suffix and its else branch (the loop ran out:
\* every character was 'z'), which puts an 'a' in front
IncrementLoop(suffix_list) ==
    LET i == LastNotZ(suffix_list)
    IN  IF i >= 1 THEN LoopResult(suffix_list, i)
        ELSE <<OrdA>> \o LoopResult(suffix_list, 0)

\* the loop without its else branch: "z" wraps to "a"
IncrementLoopNoCarryOut(suffix_list) ==
    LoopResult(suffix_list, LastNotZ(suffix_list))

increment_suffix_nocarry(suffix) ==
    IF Len(suffix) = 0 THEN <<OrdA>>
    ELSE IncrementLoopNoCarryOut(suffix)

increment_suffix(suffix) ==
    IF Len(suffix) = 0 THEN <<OrdA>>
    ELSE IncrementLoop(suffix)

\* ------------------------------------------------------------ version update
\* f"{major_ver}.{minor_ver}.{patch_ver}.{suffix}"
Render(major_ver, minor_ver, patch_ver, suffix) ==
    Str(major_ver) \o <<Dot>> \o Str(minor_ver) \o <<Dot>> \o Str(patch_ver)
    \o <<Dot>> \o suffix

\* the chain with minor tested before major
BumpMinorFirst(nums, major, minor, patch) ==
    IF minor THEN <<nums[1], nums[2] + 1, 0>>
    ELSE IF major THEN <<nums[1] + 1, 0, 0>>
    ELSE IF patch THEN <<nums[1], nums[2], nums[3] + 1>>
    ELSE nums

\* the if / elif / elif chain on the numeric fields
Bump(nums, major, minor, patch) ==
    IF major THEN <<nums[1] + 1, 0, 0>>
    ELSE IF minor THEN <<nums[1], nums[2] + 1, 0>>
    ELSE IF patch THEN <<nums[1], nums[2], nums[3] + 1>>
    ELSE nums

\* update_version that returns without a directive instead of raising
update_version_noraise(current_version, major, minor, patch, commit) ==
    LET split == Split(current_version)
        parts == IF Len(split) = 3 THEN Append(split, <<OrdA>>) ELSE split
    IN  IF Len(parts) # 4 THEN Raise(ErrFormat)
        ELSE IF \E k \in 1..3 : ~IsIntLiteral(parts[k])
        THEN Raise(IntError(FirstBadLiteral(parts, 3)))
        ELSE LET nums == Bump(<<ParseInt(parts[1]), ParseInt(parts[2]),
                                ParseInt(parts[3])>>, major, minor, patch)
                 suffix == IF commit THEN increment_suffix(parts[4]) ELSE parts[4]
             IN  IF \E k \in 1..3 : StrExceedsLimit(nums[k]) THEN Raise(ErrStrDigits)
                 ELSE Ok(Render(nums[1], nums[2], nums[3], suffix))

update_version(current_version, major, minor, patch, commit) ==
    LET split == Split(current_version)
        parts == IF Len(split) = 3 THEN Append(split, <<OrdA>>) ELSE split
    IN  IF Len(parts) # 4 THEN Raise(ErrFormat)
        ELSE IF \E k \in 1..3 : ~IsIntLiteral(parts[k])
        THEN Raise(IntError(FirstBadLiteral(parts, 3)))
        ELSE LET nums == Bump(<<ParseInt(parts[1]), ParseInt(parts[2]),
                                ParseInt(parts[3])>>, major, minor, patch)
             IN  IF ~commit THEN Raise(ErrNoDirective)
                 ELSE IF \E k \in 1..3 : StrExceedsLimit(nums[k])
                 THEN Raise(ErrStrDigits)
                 ELSE Ok(Render(nums[1], nums[2], nums[3], increment_suffix(parts[4])))

\* ------------------------------------------------------------ extraction

\* "version=" and "__version__" as code points
LabelVersionEq == <<118, 101, 114, 115, 105, 111, 110, Equals>>
LabelDunder    == <<Underscore, Underscore, 118, 101, 114, 115, 105, 111, 110,
                    Underscore, Underscore>>

\* a literal of the pattern under re.IGNORECASE, at position i
OccursAtIgnoreCase(s, t, i) ==
    /\ i >= 1
    /\ i + Len(t) - 1 <= Len(s)
    /\ \A k \in 1..Len(t) : LowerOf(s[i + k - 1]) = LowerOf(t[k])

\* a greedy class repetition from position i: the first position not in the class
RunEnd(s, i, class) == FirstNotIn(s, i, class)

At(s, i, class) == i >= 1 /\ i <= Len(s) /\ s[i] \in class

\* ['\"]([0-9]+\.[0-9]+\.[0-9]+(?:\.[a-zA-Z]+)?)['\"] with the opening quote at q:
\* group 1 when it matches.  The classes of adjacent pieces are disjoint, so the
\* greedy runs are the only way to match.
QuotedVersionAt(s, q) ==
    LET d1 == RunEnd(s, q + 1, Digits)
        d2 == RunEnd(s, d1 + 1, Digits)
        d3 == RunEnd(s, d2 + 1, Digits)
        l  == RunEnd(s, d3 + 1, Letters)
    IN  IF /\ At(s, q, Quotes)
           /\ d1 > q + 1  /\ At(s, d1, {Dot})
           /\ d2 > d1 + 1 /\ At(s, d2, {Dot})
           /\ d3 > d2 + 1
        THEN IF At(s, d3, {Dot}) /\ l > d3 + 1 /\ At(s, l, Quotes)
             THEN Ok(Slice(s, q + 1, l - 1))
             ELSE IF At(s, d3, Quotes) THEN Ok(Slice(s, q + 1, d3 - 1))
             ELSE Raise("no match")
        ELSE Raise("no match")

\* version=<quoted version> starting at i
SetupPatternAt(s, i) ==
    IF OccursAtIgnoreCase(s, LabelVersionEq, i)
    THEN QuotedVersionAt(s, i + Len(LabelVersionEq))
    ELSE Raise("no match")

\* __version__\s*=\s*<quoted version> starting at i
InitPatternAt(s, i) ==
    LET e == RunEnd(s, i + Len(LabelDunder), Whitespace)
    IN  IF OccursAtIgnoreCase(s, LabelDunder, i) /\ At(s, e, {Equals})
        THEN QuotedVersionAt(s, RunEnd(s, e + 1, Whitespace))
        ELSE Raise("no match")

\* re.search: the match at the leftmost position that has one
extract_version_from_setup(content) ==
    IF \E i \in 1..Len(content) : SetupPatternAt(content, i).ok
    THEN LET i == CHOOSE j \in 1..Len(content) :
                     /\ SetupPatternAt(content, j).ok
                     /\ \A h \in 1..(j - 1) : ~SetupPatternAt(content, h).ok
         IN  Ok(SetupPatternAt(content, i).value)
    ELSE Raise(ErrNoSetup)

extract_version_from_init(content) ==
    IF \E i \in 1..Len(content) : InitPatternAt(content, i).ok
    THEN LET i == CHOOSE j \in 1..Len(content) :
                     /\ InitPatternAt(content, j).ok
                     /\ \A h \in 1..(j - 1) : ~InitPatternAt(content, h).ok
         IN  Ok(InitPatternAt(content, i).value)
    ELSE Raise(ErrNoInit)

\* ------------------------------------------------------------ file mutation
\* f"version='{v}'" and f"__version__ = '{v}'"
SetupAssignment(v) == LabelVersionEq \o <<SQuote>> \o v \o <<SQuote>>
InitAssignment(v)  == LabelDunder \o <<Space, Equals, Space, SQuote>> \o v \o <<SQuote>>

update_version_in_setup(content, old_version, new_version) ==
    Replace(content, SetupAssignment(old_version), SetupAssignment(new_version))

update_version_in_init(content, old_version, new_version) ==
    Replace(content, InitAssignment(old_version), InitAssignment(new_version))

\* compare_versions: which of its two reports it prints
compare_versions(setup_version, init_version) ==
    IF setup_version = init_version THEN "All versions are the same"
    ELSE "Versions are different"

\* ------------------------------------------------------------ bounds and inputs
MaxRuns      == 2
MaxSuffixLen == 2
MaxListLen   == 3
MaxChain     == 2

\* "x.y.z" and "x.y.z.s"
V3(a, b, c)    == Str(a) \o <<Dot>> \o Str(b) \o <<Dot>> \o Str(c)
V4(a, b, c, s) == V3(a, b, c) \o <<Dot>> \o s

\* suffix texts: "a" "b" "c" "z" "aa" "az" "zz" "Z"
Sa  == <<97>>
Sb  == <<98>>
Sc  == <<99>>
Sz  == <<122>>
Saa == <<97, 97>>
Saz == <<97, 122>>
Szz == <<122, 122>>
SZ  == <<90>>

\* the versions the two files may hold when a run starts
FileVersions ==
    {V3(1, 2, 3), V4(1, 2, 3, Sc), V4(1, 2, 4, Sz), V4(0, 9, 9, Szz), V4(1, 2, 3, SZ)}

\* setup.py: version='V', version="V", VERSION='V', or no version at all
SetupFiles ==
    {SetupAssignment(v) : v \in FileVersions}
    \cup {LabelVersionEq \o <<DQuote>> \o v \o <<DQuote>> : v \in FileVersions}
    \cup {<<86, 69, 82, 83, 73, 79, 78, Equals, SQuote>> \o v \o <<SQuote>> :
              v \in FileVersions}
    \cup {LabelVersionEq \o <<SQuote, 49, Dot, 48, SQuote>>}

\* __init__.py: __version__ = 'V', __version__ = "V", __version__='V', or none
InitFiles ==
    {InitAssignment(v) : v \in FileVersions}
    \cup {LabelDunder \o <<Space, Equals, Space, DQuote>> \o v \o <<DQuote>> :
              v \in FileVersions}
    \cup {LabelDunder \o <<Equals, SQuote>> \o v \o <<SQuote>> : v \in FileVersions}
    \cup {LabelDunder \o <<Space, Equals, Space, SQuote, 49, Dot, 48, SQuote>>}

\* every text of lowercase letters of length 0..MaxSuffixLen
SuffixInputs == UNION {[1..n -> LowerLetters] : n \in 0..MaxSuffixLen}

\* versions given to get_latest_version: well-formed ones, ones of 1, 2 and 5
\* dot-separated components, and "1.x.3"
LatestInputs ==
    {V3(1, 2, 3), V4(1, 2, 3, Sb), V3(1, 2, 4), V4(1, 0, 0, Sa), V4(1, 0, 0, Sz),
     V4(1, 0, 0, Saa), V3(10, 0, 0),
     <<49>>, <<49, Dot, 50>>, V4(1, 2, 3, Sa) \o <<Dot>> \o Sb,
     <<49, Dot, 120, Dot, 51>>}

VersionLists == UNION {[1..n -> LatestInputs] : n \in 0..MaxListLen}

\* versions given to update_version
UpdateTriples ==
    {<<1, 2, 3>>, <<0, 0, 0>>, <<1, 0, 0>>, <<9, 9, 9>>, <<0, 19, 99>>}

UpdateSuffixes == {Sa, Sc, Sz, Saz, Szz}

UpdateInputs ==
    {V3(t[1], t[2], t[3]) : t \in UpdateTriples}
    \cup {V4(t[1], t[2], t[3], s) : t \in UpdateTriples, s \in UpdateSuffixes}
    \cup {<<49>>, <<49, Dot, 50>>, V4(1, 2, 3, Sa) \o <<Dot>> \o Sb,
          V4(1, 2, 3, Sa) \o <<Dot>> \o Sb \o <<Dot>> \o Sc,
          <<49, Dot, 120, Dot, 51>>, <<Minus, 49, Dot, 50, Dot, 51>>}

\* ------------------------------------------------------------ state
VARIABLES
    pc,              \* where main is: the statement it executes next
    runs,            \* how many times the script has been run
    setup_file,      \* the text of setup.py
    init_file,       \* the text of python_email_sender/__init__.py
    setup_version,   \* main's locals
    init_version,
    report,
    latest_version,
    flags,
    new_version,
    err,             \* the message of the exception that ended the run, or ""
    input,           \* the argument of a function applied on its own
    call,            \* that application: the function, its arguments, its result
    chain            \* how many results have been fed back as arguments

vars == <<pc, runs, setup_file, init_file, setup_version, init_version, report,
          latest_version, flags, new_version, err, input, call, chain>>

files  == <<setup_file, init_file>>
locals == <<setup_version, init_version, report, latest_version, flags, new_version>>
direct == <<input, call, chain>>

NoFlags == [major |-> FALSE, minor |-> FALSE, patch |-> FALSE, commit |-> FALSE]
NoCall  == [fn |-> "none"]

FreshLocals ==
    /\ setup_version = <<>>
    /\ init_version = <<>>
    /\ report = ""
    /\ latest_version = <<>>
    /\ flags = NoFlags
    /\ new_version = <<>>
    /\ err = ""

\* ------------------------------------------------------------ main
Init ==
    /\ pc = "extract_setup"
    /\ runs = 1
    /\ setup_file \in SetupFiles
    /\ init_file \in InitFiles
    /\ FreshLocals
    /\ input = <<>>
    /\ call = NoCall
    /\ chain = 0

\* setup_version = extract_version_from_setup(setup_path)
ExtractSetup ==
    /\ pc = "extract_setup"
    /\ LET r == extract_version_from_setup(setup_file)
       IN  /\ setup_version' = r.value
           /\ err' = r.msg
           /\ pc' = IF r.ok THEN "extract_init" ELSE "aborted"
    /\ UNCHANGED <<runs, files, init_version, report, latest_version, flags,
                   new_version, direct>>

\* init_version = extract_version_from_init(init_path)
ExtractInit ==
    /\ pc = "extract_init"
    /\ LET r == extract_version_from_init(init_file)
       IN  /\ init_version' = r.value
           /\ err' = r.msg
           /\ pc' = IF r.ok THEN "compare" ELSE "aborted"
    /\ UNCHANGED <<runs, files, setup_version, report, latest_version, flags,
                   new_version, direct>>

\* compare_versions(setup_version, init_version)
CompareVersions ==
    /\ pc = "compare"
    /\ report' = compare_versions(setup_version, init_version)
    /\ pc' = "latest"
    /\ UNCHANGED <<runs, files, setup_version, init_version, latest_version, flags,
                   new_version, err, direct>>

\* latest_version = get_latest_version([setup_version, init_version])
GetLatest ==
    /\ pc = "latest"
    /\ LET r == get_latest_version(<<setup_version, init_version>>)
       IN  /\ latest_version' = r.value
           /\ err' = r.msg
           /\ pc' = IF r.ok THEN "input" ELSE "aborted"
    /\ UNCHANGED <<runs, files, setup_version, init_version, report, flags,
                   new_version, direct>>

\* the four input(...).lower() == "y" answers
ReadFlags ==
    /\ pc = "input"
    /\ \E major \in BOOLEAN, minor \in BOOLEAN, patch \in BOOLEAN, commit \in BOOLEAN :
           flags' = [major |-> major, minor |-> minor, patch |-> patch,
                     commit |-> commit]
    /\ pc' = "update"
    /\ UNCHANGED <<runs, files, setup_version, init_version, report, latest_version,
                   new_version, err, direct>>

\* new_version = update_version(latest_version, major, minor, patch, commit)
UpdateVersion ==
    /\ pc = "update"
    /\ LET r == update_version(latest_version, flags.major, flags.minor, flags.patch,
                               flags.commit)
       IN  /\ new_version' = r.value
           /\ err' = r.msg
           /\ pc' = IF r.ok THEN "write_setup" ELSE "aborted"
    /\ UNCHANGED <<runs, files, setup_version, init_version, report, latest_version,
                   flags, direct>>

\* update_version_in_setup(setup_path, latest_version, new_version)
WriteSetup ==
    /\ pc = "write_setup"
    /\ setup_file' = update_version_in_setup(setup_file, latest_version, new_version)
    /\ pc' = "write_init"
    /\ UNCHANGED <<runs, init_file, locals, err, direct>>

\* update_version_in_init(init_path, latest_version, new_version); main returns
WriteInit ==
    /\ pc = "write_init"
    /\ init_file' = update_version_in_init(init_file, latest_version, new_version)
    /\ pc' = "done"
    /\ UNCHANGED <<runs, setup_file, locals, err, direct>>

\* the script is run again on the files the last run left
RunAgain ==
    /\ pc = "done"
    /\ runs < MaxRuns
    /\ runs' = runs + 1
    /\ pc' = "extract_setup"
    /\ setup_version' = <<>>
    /\ init_version' = <<>>
    /\ report' = ""
    /\ latest_version' = <<>>
    /\ flags' = NoFlags
    /\ new_version' = <<>>
    /\ err' = ""
    /\ UNCHANGED <<files, direct>>

Next ==
    \/ ExtractSetup
    \/ ExtractInit
    \/ CompareVersions
    \/ GetLatest
    \/ ReadFlags
    \/ UpdateVersion
    \/ WriteSetup
    \/ WriteInit
    \/ RunAgain

Spec == Init /\ [][Next]_vars

\* ------------------------------------------------------------ the functions alone
Idle ==
    /\ pc = "direct"
    /\ runs = 0
    /\ setup_file = <<>>
    /\ init_file = <<>>
    /\ FreshLocals
    /\ call = NoCall
    /\ chain = 0

main_state == <<pc, runs, files, locals, err>>

\* increment_suffix(input)
InitSuffix == Idle /\ input \in SuffixInputs

ApplyIncrementSuffix ==
    /\ call = NoCall
    /\ call' = [fn |-> "increment_suffix", suffix |-> input,
                ret |-> increment_suffix(input)]
    /\ UNCHANGED <<main_state, input, chain>>

\* the result is incremented in turn
FeedSuffix ==
    /\ call # NoCall
    /\ chain < MaxChain
    /\ input' = call.ret
    /\ call' = NoCall
    /\ chain' = chain + 1
    /\ UNCHANGED main_state

NextSuffix == ApplyIncrementSuffix \/ FeedSuffix

SpecSuffix == InitSuffix /\ [][NextSuffix]_vars

\* get_latest_version(input)
InitLatest == Idle /\ input \in VersionLists

ApplyGetLatest ==
    /\ call = NoCall
    /\ call' = [fn |-> "get_latest_version", versions |-> input,
                ret |-> get_latest_version(input)]
    /\ UNCHANGED <<main_state, input, chain>>

NextLatest == ApplyGetLatest

SpecLatest == InitLatest /\ [][NextLatest]_vars

\* update_version(input, major, minor, patch, commit)
InitUpdate == Idle /\ input \in UpdateInputs

ApplyUpdateVersion ==
    /\ call = NoCall
    /\ \E major \in BOOLEAN, minor \in BOOLEAN, patch \in BOOLEAN, commit \in BOOLEAN :
           call' = [fn |-> "update_version", current_version |-> input,
                    major |-> major, minor |-> minor, patch |-> patch,
                    commit |-> commit,
                    ret |-> update_version(input, major, minor, patch, commit)]
    /\ UNCHANGED <<main_state, input, chain>>

\* the version returned is the current version of the next update
FeedVersion ==
    /\ call # NoCall
    /\ call.ret.ok
    /\ chain < MaxChain
    /\ input' = call.ret.value
    /\ call' = NoCall
    /\ chain' = chain + 1
    /\ UNCHANGED main_state

NextUpdate == ApplyUpdateVersion \/ FeedVersion

SpecUpdate == InitUpdate /\ [][NextUpdate]_vars

\* ------------------------------------------------------------ properties
\* what the properties say of a version text
AllIn(s, class) == \A k \in 1..Len(s) : s[k] \in class

\* N.N.N or N.N.N.s with s one or more letters: the grammar of the extraction
WellFormed(v) ==
    LET parts == Split(v)
    IN  /\ Len(parts) \in {3, 4}
        /\ \A k \in 1..3 : Len(parts[k]) > 0 /\ AllIn(parts[k], Digits)
        /\ Len(parts) = 4 => (Len(parts[4]) > 0 /\ AllIn(parts[4], Letters))

NumsOf(v) ==
    LET parts == Split(v)
    IN  <<ParseInt(parts[1]), ParseInt(parts[2]), ParseInt(parts[3])>>

\* the suffix, a missing one read as "a"
SuffixOf(v) ==
    LET parts == Split(v)
    IN  IF Len(parts) = 3 THEN Sa ELSE parts[4]

WellFormedLower(v) == WellFormed(v) /\ AllIn(SuffixOf(v), LowerLetters)

\* the numeric fields after the highest-precedence directive among those set
Directed(nums, major, minor, patch) ==
    CASE major -> <<nums[1] + 1, 0, 0>>
      [] ~major /\ minor -> <<nums[1], nums[2] + 1, 0>>
      [] ~major /\ ~minor /\ patch -> <<nums[1], nums[2], nums[3] + 1>>
      [] OTHER -> nums

\* the bijective base-26 value of a suffix, digit by digit: 'a' = 1 .. 'z' = 26
RECURSIVE Pow26(_)
Pow26(n) == IF n = 0 THEN 1 ELSE 26 * Pow26(n - 1)

RECURSIVE OrdinalFrom(_, _)
OrdinalFrom(s, k) ==
    IF k > Len(s) THEN 0
    ELSE (s[k] - 96) * Pow26(Len(s) - k) + OrdinalFrom(s, k + 1)

Ordinal(s) == OrdinalFrom(s, 1)

\* the tuple (major, minor, patch, suffix ordinal) of a well-formed version
OrderTuple(v) == NumsOf(v) \o <<Ordinal(SuffixOf(v))>>

IsUpdateCall  == call.fn = "update_version"
IsLatestCall  == call.fn = "get_latest_version"
IsSuffixCall  == call.fn = "increment_suffix"

\* C1: update_version with major, minor or patch set and commit not set returns
\* the version with the numeric fields bumped by the highest-precedence flag and
\* the suffix of the input carried forward, e.g. "1.2.3.c" with major -> "2.0.0.c".
C1_BumpWithoutCommitReturns ==
    (/\ IsUpdateCall
     /\ WellFormed(call.current_version)
     /\ (call.major \/ call.minor \/ call.patch)
     /\ ~call.commit)
    => LET n == Directed(NumsOf(call.current_version), call.major, call.minor,
                         call.patch)
       IN  /\ call.ret.ok
           /\ call.ret.value = Render(n[1], n[2], n[3], SuffixOf(call.current_version))

\* C2: update_version with all four flags false raises the no-directive error
\* for every well-formed current version and returns no version.
C2_NoDirectiveRaises ==
    (/\ IsUpdateCall
     /\ WellFormed(call.current_version)
     /\ ~call.major /\ ~call.minor /\ ~call.patch /\ ~call.commit)
    => /\ ~call.ret.ok
       /\ call.ret.msg = ErrNoDirective
       /\ call.ret.value = <<>>

C2_Witness ==
    /\ IsUpdateCall
    /\ call.current_version = V3(1, 0, 0)
    /\ ~call.major /\ ~call.minor /\ ~call.patch /\ ~call.commit
    /\ ~call.ret.ok

\* C3: with commit set, update_version returns the numeric fields bumped by the
\* highest-precedence flag set among major, minor, patch (unchanged when none is
\* set) and the suffix incremented, a missing suffix read as "a"; "1.2.3" with
\* major and commit gives "2.0.0.b".
C3_CommitBumpsAndIncrements ==
    (IsUpdateCall /\ WellFormed(call.current_version) /\ call.commit)
    => LET n == Directed(NumsOf(call.current_version), call.major, call.minor,
                         call.patch)
       IN  /\ call.ret.ok
           /\ call.ret.value =
                  Render(n[1], n[2], n[3],
                         increment_suffix(SuffixOf(call.current_version)))
           /\ (call.current_version = V3(1, 2, 3) /\ call.major)
                  => call.ret.value = V4(2, 0, 0, Sb)

C3_Witness ==
    /\ IsUpdateCall
    /\ call.current_version = V3(1, 2, 3)
    /\ call.major /\ call.minor /\ call.patch /\ call.commit
    /\ call.ret.ok
    /\ call.ret.value = V4(2, 0, 0, Sb)

\* C4: for every suffix of lowercase letters, the empty one included, the
\* suffix_key of increment_suffix(s) is the suffix_key of s plus one; and
\* "z" -> "aa", "zz" -> "aaa", "az" -> "ba", "" -> "a".
C4_IncrementAddsOne ==
    (IsSuffixCall /\ AllIn(call.suffix, LowerLetters))
    => /\ suffix_key(call.ret) = suffix_key(call.suffix) + 1
       /\ call.suffix = Sz => call.ret = Saa
       /\ call.suffix = Szz => call.ret = <<97, 97, 97>>
       /\ call.suffix = Saz => call.ret = <<98, 97>>
       /\ call.suffix = <<>> => call.ret = Sa

C4_Witness ==
    /\ IsSuffixCall
    /\ call.suffix = Szz
    /\ call.ret = <<97, 97, 97>>

\* C5: for a non-empty list of well-formed versions get_latest_version returns
\* an element of the list whose tuple (major, minor, patch, suffix ordinal) no
\* element exceeds, a missing suffix counting as "a" (ordinal 1);
\* ["1.0.0.a", "1.0.0.z", "1.0.0.aa"] gives "1.0.0.aa".
C5_LatestIsMaximal ==
    (/\ IsLatestCall
     /\ Len(call.versions) > 0
     /\ \A k \in 1..Len(call.versions) : WellFormedLower(call.versions[k]))
    => /\ call.ret.ok
       /\ \E k \in 1..Len(call.versions) : call.versions[k] = call.ret.value
       /\ \A k \in 1..Len(call.versions) :
              ~TupleLess(OrderTuple(call.ret.value), OrderTuple(call.versions[k]))
       /\ call.versions = <<V4(1, 0, 0, Sa), V4(1, 0, 0, Sz), V4(1, 0, 0, Saa)>>
              => call.ret.value = V4(1, 0, 0, Saa)
       /\ call.versions = <<V3(1, 2, 3), V4(1, 2, 3, Sb), V3(1, 2, 4)>>
              => call.ret.value = V3(1, 2, 4)

C5_Witness ==
    /\ IsLatestCall
    /\ call.versions = <<V4(1, 0, 0, Sa), V4(1, 0, 0, Sz), V4(1, 0, 0, Saa)>>
    /\ call.ret.ok
    /\ call.ret.value = V4(1, 0, 0, Saa)

\* C6: every version main holds, extracted from a file or returned by
\* update_version, in any run, has a suffix of the characters 'a'..'z' only.
C6_SuffixIsLowercase ==
    \A v \in {setup_version, init_version, latest_version, new_version} :
        v # <<>> => AllIn(SuffixOf(v), LowerLetters)

\* C7: when a run of main ends with a new version, extracting the version from
\* setup.py and from __init__.py yields the new version, whatever versions and
\* quoting the files started with.
C7_BothFilesHoldNewVersion ==
    pc = "done"
    => /\ extract_version_from_setup(setup_file) = Ok(new_version)
       /\ extract_version_from_init(init_file) = Ok(new_version)

\* C8: as the docstring of update_version says, with major, minor or patch set
\* the result has that field incremented, the lower fields reset and the suffix
\* reset to "a".
C8_BumpResetsSuffix ==
    (/\ IsUpdateCall
     /\ WellFormed(call.current_version)
     /\ (call.major \/ call.minor \/ call.patch))
    => LET n == Directed(NumsOf(call.current_version), call.major, call.minor,
                         call.patch)
       IN  /\ call.ret.ok
           /\ call.ret.value = Render(n[1], n[2], n[3], Sa)

\* C9: a version that does not split on '.' into 3 or 4 components makes
\* get_latest_version raise, as it makes update_version raise; no version is
\* returned.
C9_MalformedRejected ==
    (/\ IsLatestCall
     /\ \E k \in 1..Len(call.versions) : Len(Split(call.versions[k])) \notin {3, 4})
    => ~call.ret.ok

\* C10: a version returned by update_version for a well-formed version with a
\* lowercase suffix is strictly greater than that version under the order of
\* get_latest_version, which picks it out of the two in either order.
C10_UpdateStrictlyIncreases ==
    (IsUpdateCall /\ WellFormedLower(call.current_version) /\ call.ret.ok)
    => /\ TupleLess(version_key(call.current_version).value,
                    version_key(call.ret.value).value)
       /\ get_latest_version(<<call.current_version, call.ret.value>>)
              = Ok(call.ret.value)
       /\ get_latest_version(<<call.ret.value, call.current_version>>)
              = Ok(call.ret.value)

C10_Witness ==
    /\ IsUpdateCall
    /\ chain = 1
    /\ call.current_version = V4(1, 2, 3, Saa)
    /\ call.ret.ok
    /\ call.ret.value = V4(1, 2, 3, <<97, 98>>)

====
